---- MODULE Spec2Model ----
(***************************************************************************)
(* R3D3: the start-up sequence and the frame loop of run() in src/main.rs, *)
(* with handle_camera_event().  The collaborators whose code lives in the  *)
(* modules camera, render_gl, cube and debug (Viewport, TargetCamera,      *)
(* DebugLines markers) are modelled from their documented contracts.       *)
(*                                                                         *)
(* Numbers.  Angles are counted in ticks of pi/8, distances and target     *)
(* coordinates in whole units, dt in whole ticks.  An f32 quotient         *)
(* (w as f32 / h as f32) is kept as the IEEE class of the result: nan,     *)
(* +inf, -inf, or the reduced fraction n/d it rounds from.                 *)
(***************************************************************************)
EXTENDS Integers, Sequences, FiniteSets, TLC

\* ------------------------------------------------------------------ bounds
MaxBatch == 2       \* events one poll_iter() drains before it runs dry
MaxDim == 1         \* Resized(w, h) carries w, h in -1 .. MaxDim
MaxTarget == 1      \* |coordinate| of camera.target explored
MaxYaw == 1         \* |yaw| explored
MaxDt == 1          \* time.elapsed() of a frame, in ticks, 0 .. MaxDt
MaxDelta == 5       \* |y| of a wheel event, |yrel| of a mouse motion

\* ------------------------------------------------------- program constants
InitialWidth == 800
InitialHeight == 600
InitialDistance == 2
Pi == 8
InitialPitch == 2
Epsilon == 1
MinDistance == 1
MaxDistance == 3

\* ------------------------------------------------------------- f32 quotient
RECURSIVE Gcd(_, _)
Gcd(a, b) == IF b = 0 THEN a ELSE Gcd(b, a % b)

Abs(x) == IF x < 0 THEN 0 - x ELSE x

\* w as f32 / h as f32
F32Div(w, h) ==
    IF h = 0
    THEN IF w = 0 THEN [k |-> "nan", n |-> 0, d |-> 0]
         ELSE IF w > 0 THEN [k |-> "inf", n |-> 0, d |-> 0]
         ELSE [k |-> "-inf", n |-> 0, d |-> 0]
    ELSE LET g == Gcd(Abs(w), Abs(h))
             s == IF h < 0 THEN 0 - 1 ELSE 1
         IN  [k |-> "fin", n |-> (s * w) \div g, d |-> (s * h) \div g]

\* f32 comparison  a > 0.0
F32Positive(a) == a.k = "inf" \/ (a.k = "fin" /\ a.n > 0)

\* f32 comparison  a == b  (nan equals nothing)
F32Eq(a, b) == a.k # "nan" /\ b.k # "nan" /\ a = b

\* ------------------------------------------------------------------ events
Ev(t, sc, a, b, r) == [type |-> t, scancode |-> sc, a |-> a, b |-> b, right |-> r]

Quit == Ev("Quit", "None", 0, 0, FALSE)
KeyDown(sc) == Ev("KeyDown", sc, 0, 0, FALSE)
KeyUp(sc) == Ev("KeyUp", sc, 0, 0, FALSE)
Resized(w, h) == Ev("Resized", "None", w, h, FALSE)
MouseWheel(y) == Ev("MouseWheel", "None", 0, y, FALSE)
MouseMotion(xrel, yrel, right) == Ev("MouseMotion", "None", xrel, yrel, right)
MouseButtonDown == Ev("MouseButtonDown", "None", 0, 0, FALSE)
NoEvent == Ev("NoEvent", "None", 0, 0, FALSE)


\* ------------------------------------------------------------- Viewport
\* render_gl::Viewport::for_window(w, h)
ViewportForWindow(w, h) == [w |-> w, h |-> h]

\* Viewport::update_size(w, h): replaces the stored dimensions
ViewportUpdateSize(vp, w, h) == [vp EXCEPT !.w = w, !.h = h]

\* Viewport::set_used(&gl): the dimensions handed to the context
ViewportSetUsed(vp) == <<vp.w, vp.h>>

NoGlViewport == <<0, 0>>

\* ---------------------------------------------------------- TargetCamera
Clamp(x, lo, hi) == IF x < lo THEN lo ELSE IF x > hi THEN hi ELSE x

NoMovement ==
    [faster |-> FALSE, left |-> FALSE, forward |-> FALSE, backward |-> FALSE,
     right |-> FALSE, up |-> FALSE, down |-> FALSE]

Origin == <<0, 0, 0>>

\* camera::TargetCamera::new(aspect, fov, z_near, z_far, initial_tilt, initial_distance)
TargetCameraNew(aspect, pitch, distance) ==
    [aspect |-> aspect, yaw |-> 0, pitch |-> pitch, distance |-> distance,
     target |-> Origin, movement |-> NoMovement]

\* the camera local before `let mut camera` is bound
NoCamera == TargetCameraNew(F32Div(0, 0), 0, 0)

\* TargetCamera::update_aspect(aspect)
UpdateAspect(cam, aspect) == [cam EXCEPT !.aspect = aspect]

\* TargetCamera::rotate(&Vector2(dx, dy))
Rotate(cam, dx, dy) ==
    [cam EXCEPT !.yaw = @ + dx,
                !.pitch = Clamp(@ + dy, Epsilon + 1, Pi - Epsilon - 1)]

\* TargetCamera::zoom(y)
Zoom(cam, y) == [cam EXCEPT !.distance = Clamp(@ - y, MinDistance, MaxDistance)]

B2I(b) == IF b THEN 1 ELSE 0

\* the translation the movement flags ask for, along the camera's right, up
\* and forward axes; opposite flags cancel
MovementVector(m) ==
    <<B2I(m.right) - B2I(m.left), B2I(m.up) - B2I(m.down),
      B2I(m.forward) - B2I(m.backward)>>

Speed(m) == IF m.faster THEN 2 ELSE 1

\* TargetCamera::update(dt) -> bool: the camera after the step, and whether
\* the target moved
CameraUpdate(cam, dt) ==
    LET v == MovementVector(cam.movement)
        k == Speed(cam.movement) * dt
        t == <<cam.target[1] + k * v[1], cam.target[2] + k * v[2],
               cam.target[3] + k * v[3]>>
    IN  [cam |-> [cam EXCEPT !.target = t], moved |-> t # cam.target]

\* what TargetCamera::get_vp_matrix() computes the matrix from
VpMatrix(cam) ==
    [set |-> TRUE, aspect |-> cam.aspect, yaw |-> cam.yaw, pitch |-> cam.pitch,
     distance |-> cam.distance, target |-> cam.target]

NoMatrix == [VpMatrix(NoCamera) EXCEPT !.set = FALSE]

\* ------------------------------------------------- handle_camera_event
\* the movement flag a scancode is mapped to ("none": the `_ => ()` arm)
FlagOf(sc) ==
    CASE sc \in {"LShift", "RShift"} -> "faster"
      [] sc = "A" -> "left"
      [] sc = "W" -> "forward"
      [] sc = "S" -> "backward"
      [] sc = "D" -> "right"
      [] sc = "Space" -> "up"
      [] sc = "LCtrl" -> "down"
      [] OTHER -> "none"

Flags == {"faster", "left", "forward", "backward", "right", "up", "down"}

\* the assignment camera.movement.<flag> = v, as it shows in the call log
MovementCall(flag, v) == "movement." \o flag \o (IF v THEN "=true" ELSE "=false")

MovementCalls == {MovementCall(f, v) : f \in Flags, v \in BOOLEAN}

SetFlag(cam, sc, v) ==
    IF FlagOf(sc) = "none" THEN cam
    ELSE [cam EXCEPT !.movement = [@ EXCEPT ![FlagOf(sc)] = v]]

\* handle_camera_event with the `if mousestate.right()` test left out
handle_camera_event_NoGate(cam, e) ==
    CASE e.type = "MouseWheel" ->
            [cam |-> Zoom(cam, e.b), calls |-> <<"zoom">>]
      [] e.type = "KeyDown" /\ e.scancode # "None" ->
            [cam |-> SetFlag(cam, e.scancode, TRUE),
             calls |-> IF FlagOf(e.scancode) = "none" THEN <<>>
                       ELSE <<MovementCall(FlagOf(e.scancode), TRUE)>>]
      [] e.type = "KeyUp" /\ e.scancode # "None" ->
            [cam |-> SetFlag(cam, e.scancode, FALSE),
             calls |-> IF FlagOf(e.scancode) = "none" THEN <<>>
                       ELSE <<MovementCall(FlagOf(e.scancode), FALSE)>>]
      [] e.type = "MouseMotion" ->
            [cam |-> Rotate(cam, e.a, 0 - e.b), calls |-> <<"rotate">>]
      [] OTHER -> [cam |-> cam, calls |-> <<>>]

\* handle_camera_event that zooms by the wheel's x and rotates by yrel, not
\* by y and -yrel
handle_camera_event_WrongAxis(cam, e) ==
    CASE e.type = "MouseWheel" ->
            [cam |-> Zoom(cam, e.a), calls |-> <<"zoom">>]
      [] e.type = "KeyDown" /\ e.scancode # "None" ->
            [cam |-> SetFlag(cam, e.scancode, TRUE),
             calls |-> IF FlagOf(e.scancode) = "none" THEN <<>>
                       ELSE <<MovementCall(FlagOf(e.scancode), TRUE)>>]
      [] e.type = "KeyUp" /\ e.scancode # "None" ->
            [cam |-> SetFlag(cam, e.scancode, FALSE),
             calls |-> IF FlagOf(e.scancode) = "none" THEN <<>>
                       ELSE <<MovementCall(FlagOf(e.scancode), FALSE)>>]
      [] e.type = "MouseMotion" ->
            IF e.right
            THEN [cam |-> Rotate(cam, e.a, e.b), calls |-> <<"rotate">>]
            ELSE [cam |-> cam, calls |-> <<>>]
      [] OTHER -> [cam |-> cam, calls |-> <<>>]

\* handle_camera_event with the A and D arms of KeyDown and KeyUp swapped
handle_camera_event_SwapAD(cam, e) ==
    LET sc == IF e.scancode = "A" THEN "D"
              ELSE IF e.scancode = "D" THEN "A" ELSE e.scancode
    IN  CASE e.type = "MouseWheel" ->
                [cam |-> Zoom(cam, e.b), calls |-> <<"zoom">>]
          [] e.type = "KeyDown" /\ e.scancode # "None" ->
                [cam |-> SetFlag(cam, sc, TRUE),
                 calls |-> IF FlagOf(sc) = "none" THEN <<>>
                           ELSE <<MovementCall(FlagOf(sc), TRUE)>>]
          [] e.type = "KeyUp" /\ e.scancode # "None" ->
                [cam |-> SetFlag(cam, sc, FALSE),
                 calls |-> IF FlagOf(sc) = "none" THEN <<>>
                           ELSE <<MovementCall(FlagOf(sc), FALSE)>>]
          [] e.type = "MouseMotion" ->
                IF e.right
                THEN [cam |-> Rotate(cam, e.a, 0 - e.b), calls |-> <<"rotate">>]
                ELSE [cam |-> cam, calls |-> <<>>]
          [] OTHER -> [cam |-> cam, calls |-> <<>>]

\* handle_camera_event whose KeyUp arms set the flag to true, as the KeyDown
\* arms they were copied from
handle_camera_event_KeyUpSets(cam, e) ==
    CASE e.type = "MouseWheel" ->
            [cam |-> Zoom(cam, e.b), calls |-> <<"zoom">>]
      [] e.type \in {"KeyDown", "KeyUp"} /\ e.scancode # "None" ->
            [cam |-> SetFlag(cam, e.scancode, TRUE),
             calls |-> IF FlagOf(e.scancode) = "none" THEN <<>>
                       ELSE <<MovementCall(FlagOf(e.scancode), TRUE)>>]
      [] e.type = "MouseMotion" ->
            IF e.right
            THEN [cam |-> Rotate(cam, e.a, 0 - e.b), calls |-> <<"rotate">>]
            ELSE [cam |-> cam, calls |-> <<>>]
      [] OTHER -> [cam |-> cam, calls |-> <<>>]

\* handle_camera_event(camera, e): the camera afterwards and the camera
\* methods called on the way
handle_camera_event(cam, e) ==
    CASE e.type = "MouseWheel" ->
            [cam |-> Zoom(cam, e.b), calls |-> <<"zoom">>]
      [] e.type = "KeyDown" /\ e.scancode # "None" ->
            [cam |-> SetFlag(cam, e.scancode, TRUE),
             calls |-> IF FlagOf(e.scancode) = "none" THEN <<>>
                       ELSE <<MovementCall(FlagOf(e.scancode), TRUE)>>]
      [] e.type = "KeyUp" /\ e.scancode # "None" ->
            [cam |-> SetFlag(cam, e.scancode, FALSE),
             calls |-> IF FlagOf(e.scancode) = "none" THEN <<>>
                       ELSE <<MovementCall(FlagOf(e.scancode), FALSE)>>]
      [] e.type = "MouseMotion" ->
            IF e.right
            THEN [cam |-> Rotate(cam, e.a, 0 - e.b), calls |-> <<"rotate">>]
            ELSE [cam |-> cam, calls |-> <<>>]
      [] OTHER -> [cam |-> cam, calls |-> <<>>]

\* ------------------------------------------------------------------- state
VARIABLES
    pc,             \* where run() stands
    scope,          \* the owning locals of run() still alive, in declaration order
    released,       \* how many times each resource was released
    ret,            \* "none", or how run() ended: "Ok", "Err", "panic"
    failed,         \* the start-up step that failed, or "none"
    printed,        \* main printed debug::failure_to_string(e)
    viewport,       \* render_gl::Viewport { w, h }
    glViewport,     \* the dimensions last applied to the graphics context
    camera,         \* camera::TargetCamera
    marker,         \* position of camera_target_marker
    side_cam,
    event,          \* the event the `for` loop is handling
    polled,         \* events this poll_iter() has yielded
    vp_matrix,      \* the frame's vp_matrix local
    held,           \* the movement keys the keyboard holds down
    calls           \* the calls made since the frame (or start-up) began

vars ==
    <<pc, scope, released, ret, failed, printed, viewport, glViewport, camera,
      marker, side_cam, event, polled, vp_matrix, held, calls>>

Resources ==
    {"res", "sdl", "video_subsystem", "window", "gl_context", "gl",
     "debug_lines", "cube", "camera_target_marker", "event_pump"}

sceneVars == <<viewport, glViewport, camera, marker, side_cam>>
frameVars == <<event, polled, vp_matrix>>
exitVars == <<released, ret, failed, printed>>

Init ==
    /\ pc = "load_res"
    /\ scope = <<>>
    /\ released = [r \in Resources |-> 0]
    /\ ret = "none"
    /\ failed = "none"
    /\ printed = FALSE
    /\ viewport = ViewportForWindow(0, 0)
    /\ glViewport = NoGlViewport
    /\ camera = NoCamera
    /\ marker = Origin
    /\ side_cam = FALSE
    /\ event = NoEvent
    /\ polled = 0
    /\ vp_matrix = NoMatrix
    /\ held = {}
    /\ calls = <<>>

\* ---------------------------------------------------------------- start-up
\* a start-up failure that ends the process on the spot (std::process::exit),
\* running no destructor
Fail_NoUnwind(step) ==
    /\ pc' = "exit"
    /\ ret' = "Err"
    /\ failed' = step
    /\ UNCHANGED <<scope, released, printed, calls>>

\* a `?` that sees Err: run() leaves with Err(e), dropping its locals
Fail(step) ==
    /\ pc' = "unwind"
    /\ ret' = "Err"
    /\ failed' = step
    /\ UNCHANGED <<scope, released, printed, calls>>

\* a fallible constructor followed by `?`
Acquire(here, r, next, ok) ==
    /\ pc = here
    /\ IF ok
       THEN /\ scope' = Append(scope, r)
            /\ pc' = next
            /\ UNCHANGED <<released, ret, failed, printed, calls>>
       ELSE Fail(here)
    /\ UNCHANGED <<sceneVars, frameVars>>
    /\ UNCHANGED held

\* Resources::from_relative_exe_path(..).unwrap(): Err panics
LoadResources(ok) ==
    /\ pc = "load_res"
    /\ IF ok
       THEN /\ scope' = Append(scope, "res")
            /\ pc' = "sdl_init"
            /\ UNCHANGED <<ret, failed>>
       ELSE /\ pc' = "exit"
            /\ ret' = "panic"
            /\ failed' = "load_res"
            /\ UNCHANGED scope
    /\ UNCHANGED <<released, printed, calls, sceneVars, frameVars>>
    /\ UNCHANGED held

SdlInit(ok) == Acquire("sdl_init", "sdl", "video", ok)

VideoSubsystem(ok) == Acquire("video", "video_subsystem", "window", ok)

WindowBuild(ok) == Acquire("window", "window", "gl_context", ok)

GlCreateContext(ok) == Acquire("gl_context", "gl_context", "gl_load", ok)

\* gl::Gl::load_with, Viewport::for_window, ColorBuffer::new
GlLoad ==
    /\ pc = "gl_load"
    /\ scope' = Append(scope, "gl")
    /\ viewport' = ViewportForWindow(InitialWidth, InitialHeight)
    /\ calls' = Append(calls, "for_window")
    /\ pc' = "debug_lines"
    /\ UNCHANGED <<glViewport, camera, marker, side_cam, frameVars, exitVars>>
    /\ UNCHANGED held

DebugLinesNew(ok) == Acquire("debug_lines", "debug_lines", "cube", ok)

CubeNew(ok) == Acquire("cube", "cube", "scene", ok)

\* TargetCamera::new, debug_lines.marker, viewport.set_used,
\* color_buffer.set_clear_color, side_cam
SceneSetup ==
    /\ pc = "scene"
    /\ camera' = TargetCameraNew(F32Div(InitialWidth, InitialHeight),
                                 InitialPitch, InitialDistance)
    /\ marker' = camera'.target
    /\ scope' = Append(scope, "camera_target_marker")
    /\ glViewport' = ViewportSetUsed(viewport)
    /\ side_cam' = FALSE
    /\ calls' = calls \o <<"marker", "set_used", "set_clear_color">>
    /\ pc' = "event_pump"
    /\ UNCHANGED <<viewport, frameVars, exitVars>>
    /\ UNCHANGED held

EventPump(ok) == Acquire("event_pump", "event_pump", "loop", ok)

\* --------------------------------------------------------------- the loop
Dims == (0 - 1) .. MaxDim
Deltas == {0 - 1, 1}
CameraKeys == {"W", "LShift", "X"}

\* the events the event pump may yield: the window and its resizes
Events ==
    {Quit, MouseButtonDown, KeyDown("C"), KeyUp("C"), KeyDown("W"), KeyUp("W")}
        \cup {MouseWheel(y) : y \in Deltas}
        \cup {Resized(w, h) : w \in Dims, h \in Dims}

\* the events the event pump may yield: the camera's controls
CameraEvents ==
    {Quit, KeyDown("C"), Resized(1, 1)}
        \cup {KeyDown(k) : k \in CameraKeys} \cup {KeyUp(k) : k \in CameraKeys}
        \cup {MouseMotion(x, y, r) : x \in Deltas, y \in Deltas, r \in BOOLEAN}

MovementKeys == {"A", "W", "S", "D", "Space", "LCtrl"}

\* the events the event pump may yield: the six movement keys
KeyEvents ==
    {Quit, KeyDown("C"), Resized(InitialWidth, InitialHeight)}
        \cup {KeyDown(k) : k \in MovementKeys} \cup {KeyUp(k) : k \in MovementKeys}

ShiftKeys == {"LShift", "RShift"}

\* the events the event pump may yield: the two Shift keys and W
ShiftEvents ==
    {Quit, KeyDown("C"), Resized(InitialWidth, InitialHeight), KeyDown("W"),
     KeyUp("W")}
        \cup {KeyDown(k) : k \in ShiftKeys} \cup {KeyUp(k) : k \in ShiftKeys}

BigDeltas == (0 - MaxDelta) .. MaxDelta

\* the events the event pump may yield: wheel and right-button motion of any
\* magnitude up to MaxDelta
OrbitEvents ==
    {Quit, KeyDown("C"), Resized(InitialWidth, InitialHeight)}
        \cup {MouseWheel(y) : y \in BigDeltas}
        \cup {MouseMotion(0, y, TRUE) : y \in BigDeltas}

\* the events the event pump may yield: events no arm acts on, next to one
\* event of each kind that an arm does act on
MiscEvents ==
    {Quit, KeyDown("C"), KeyUp("C"), Resized(1, 1), MouseButtonDown,
     KeyDown("X"), KeyUp("X"), KeyDown("None"), KeyUp("None"),
     MouseMotion(1, 1, FALSE), MouseMotion(1, 1, TRUE), KeyDown("W"),
     MouseWheel(1)}

\* the events the event pump may yield: one of each arm
LiveEvents ==
    {Quit, KeyDown("C"), Resized(1, 1), KeyDown("W"), KeyUp("W"), MouseWheel(1)}

\* the toggle arm matching any key event of C, not only its KeyDown
Arm_AnyC(e) ==
    CASE e.type = "Quit" -> "quit"
      [] e.type \in {"KeyDown", "KeyUp"} /\ e.scancode = "C" -> "toggle"
      [] e.type = "Resized" -> "resize"
      [] OTHER -> "camera"

\* the arm of run()'s `match event` that takes e: the first that matches
Arm(e) ==
    CASE e.type = "Quit" -> "quit"
      [] e.type = "KeyDown" /\ e.scancode = "C" -> "toggle"
      [] e.type = "Resized" -> "resize"
      [] OTHER -> "camera"

InExplored(cam) ==
    /\ Abs(cam.yaw) <= MaxYaw
    /\ \A i \in 1 .. 3 : Abs(cam.target[i]) <= MaxTarget

\* `'main: loop {`, `event_pump.poll_iter()`
BeginFrame ==
    /\ pc = "loop"
    /\ pc' = "poll"
    /\ polled' = 0
    /\ event' = NoEvent
    /\ vp_matrix' = NoMatrix
    /\ calls' = <<>>
    /\ UNCHANGED <<scope, sceneVars, exitVars>>
    /\ UNCHANGED held

\* the keyboard after the key event e: a movement key is down from its
\* KeyDown to its KeyUp
HeldAfter(h, e) ==
    IF FlagOf(e.scancode) = "none" THEN h
    ELSE IF e.type = "KeyDown" THEN h \cup {e.scancode}
    ELSE IF e.type = "KeyUp" THEN h \ {e.scancode}
    ELSE h

Polling(e) ==
    /\ pc = "poll"
    /\ polled < MaxBatch
    /\ event' = e
    /\ polled' = polled + 1
    /\ held' = HeldAfter(held, e)

\* Quit handled with `continue` in place of `break 'main`
PollQuit_Continue ==
    /\ Polling(Quit)
    /\ Arm(Quit) = "quit"
    /\ pc' = "poll"
    /\ UNCHANGED <<scope, sceneVars, vp_matrix, calls, exitVars>>

\* Event::Quit => break 'main; then Ok(())
PollQuit ==
    /\ Polling(Quit)
    /\ Arm(Quit) = "quit"
    /\ pc' = "unwind"
    /\ ret' = "Ok"
    /\ UNCHANGED <<scope, released, failed, printed, sceneVars, vp_matrix, calls>>

\* Event::KeyDown { scancode: Some(Scancode::C) }
PollToggle(e) ==
    /\ Polling(e)
    /\ Arm(e) = "toggle"
    /\ side_cam' = ~side_cam
    /\ pc' = "poll"
    /\ UNCHANGED <<scope, viewport, glViewport, camera, marker, vp_matrix, calls,
                   exitVars>>

\* the Resized arm without camera.update_aspect
ResizedArm_NoAspect(vp, cam, w, h) ==
    LET v == ViewportUpdateSize(vp, w, h)
    IN  [viewport |-> v,
         glViewport |-> ViewportSetUsed(v),
         camera |-> cam,
         calls |-> <<"update_size", "set_used">>]

\* the Resized arm without viewport.set_used
ResizedArm_NoSetUsed(vp, cam, w, h) ==
    [viewport |-> ViewportUpdateSize(vp, w, h),
     glViewport |-> ViewportSetUsed(vp),
     camera |-> UpdateAspect(cam, F32Div(w, h)),
     calls |-> <<"update_size", "update_aspect">>]

\* the Resized arm with set_used called before update_size
ResizedArm_SetUsedFirst(vp, cam, w, h) ==
    [viewport |-> ViewportUpdateSize(vp, w, h),
     glViewport |-> ViewportSetUsed(vp),
     camera |-> UpdateAspect(cam, F32Div(w, h)),
     calls |-> <<"set_used", "update_size", "update_aspect">>]

\* the body of the WindowEvent::Resized(w, h) arm
ResizedArm(vp, cam, w, h) ==
    LET v == ViewportUpdateSize(vp, w, h)
    IN  [viewport |-> v,
         glViewport |-> ViewportSetUsed(v),
         camera |-> UpdateAspect(cam, F32Div(w, h)),
         calls |-> <<"update_size", "set_used", "update_aspect">>]

\* Event::Window { win_event: WindowEvent::Resized(w, h) }
PollResized(e) ==
    /\ Polling(e)
    /\ Arm(e) = "resize"
    /\ LET r == ResizedArm(viewport, camera, e.a, e.b)
       IN  /\ viewport' = r.viewport
           /\ glViewport' = r.glViewport
           /\ camera' = r.camera
           /\ calls' = calls \o r.calls
    /\ pc' = "poll"
    /\ UNCHANGED <<scope, marker, side_cam, vp_matrix, exitVars>>

\* e => handle_camera_event(&mut camera, &e)
PollCamera(e) ==
    /\ Polling(e)
    /\ Arm(e) = "camera"
    /\ LET r == handle_camera_event(camera, e)
       IN  /\ InExplored(r.cam)
           /\ camera' = r.cam
           /\ calls' = calls \o r.calls
    /\ pc' = "poll"
    /\ UNCHANGED <<scope, viewport, glViewport, marker, side_cam, vp_matrix,
                   exitVars>>

\* poll_iter() yields None: the `for` loop ends
PollNone ==
    /\ pc = "poll"
    /\ pc' = "update"
    /\ event' = NoEvent
    /\ UNCHANGED <<scope, sceneVars, polled, vp_matrix, calls, exitVars>>
    /\ UNCHANGED held

\* camera.update(delta) with its result thrown away
UpdateArm_NoMarker(cam, mk, dt) ==
    [camera |-> CameraUpdate(cam, dt).cam, marker |-> mk, calls |-> <<"update">>]

\* update_position called whatever camera.update returned
UpdateArm_AlwaysMarker(cam, mk, dt) ==
    LET r == CameraUpdate(cam, dt)
    IN  [camera |-> r.cam,
         marker |-> r.cam.target,
         calls |-> <<"update", "update_position">>]

\* if camera.update(delta) { camera_target_marker.update_position(camera.target) }
UpdateArm(cam, mk, dt) ==
    LET r == CameraUpdate(cam, dt)
    IN  [camera |-> r.cam,
         marker |-> IF r.moved THEN r.cam.target ELSE mk,
         calls |-> IF r.moved THEN <<"update", "update_position">>
                   ELSE <<"update">>]

\* the matrix taken before camera.update(delta) instead of after it
Update_AfterMatrix(dt) ==
    /\ pc = "update"
    /\ LET r == UpdateArm(camera, marker, dt)
       IN  /\ InExplored(r.camera)
           /\ vp_matrix' = VpMatrix(camera)
           /\ camera' = r.camera
           /\ marker' = r.marker
           /\ calls' = (calls \o r.calls) \o <<"get_vp_matrix">>
    /\ pc' = "clear"
    /\ UNCHANGED <<scope, viewport, glViewport, side_cam, event, polled, exitVars>>
    /\ UNCHANGED held

Update(dt) ==
    /\ pc = "update"
    /\ LET r == UpdateArm(camera, marker, dt)
       IN  /\ InExplored(r.camera)
           /\ camera' = r.camera
           /\ marker' = r.marker
           /\ calls' = calls \o r.calls
    /\ pc' = "vp"
    /\ UNCHANGED <<scope, viewport, glViewport, side_cam, frameVars, exitVars>>
    /\ UNCHANGED held

\* let vp_matrix = camera.get_vp_matrix()
GetVpMatrix ==
    /\ pc = "vp"
    /\ vp_matrix' = VpMatrix(camera)
    /\ calls' = Append(calls, "get_vp_matrix")
    /\ pc' = "clear"
    /\ UNCHANGED <<scope, sceneVars, event, polled, exitVars>>
    /\ UNCHANGED held

\* a step of the frame that only talks to the graphics context
GlStep(here, call, next) ==
    /\ pc = here
    /\ calls' = Append(calls, call)
    /\ pc' = next
    /\ UNCHANGED <<scope, sceneVars, frameVars, exitVars>>
    /\ UNCHANGED held

\* gl.Clear(..), color_buffer.clear(&gl)
Clear == GlStep("clear", "clear", "cube_render")

CubeRender == GlStep("cube_render", "cube.render", "debug_render")

DebugLinesRender == GlStep("debug_render", "debug_lines.render", "swap")

\* window.gl_swap_window()
SwapWindow == GlStep("swap", "gl_swap_window", "loop")

\* ------------------------------------------------------------ leaving run
\* the locals of run() dropped in the order of their declaration
DropLocal_Forward ==
    /\ pc = "unwind"
    /\ scope # <<>>
    /\ LET r == scope[1]
       IN  released' = [released EXCEPT ![r] = @ + 1]
    /\ scope' = Tail(scope)
    /\ UNCHANGED <<pc, ret, failed, printed, sceneVars, frameVars, calls>>
    /\ UNCHANGED held

\* the locals of run() are dropped in reverse order of declaration
DropLocal ==
    /\ pc = "unwind"
    /\ scope # <<>>
    /\ LET r == scope[Len(scope)]
       IN  released' = [released EXCEPT ![r] = @ + 1]
    /\ scope' = SubSeq(scope, 1, Len(scope) - 1)
    /\ UNCHANGED <<pc, ret, failed, printed, sceneVars, frameVars, calls>>
    /\ UNCHANGED held

\* main: if let Err(e) = run() { println!(..) }
Return ==
    /\ pc = "unwind"
    /\ scope = <<>>
    /\ pc' = "exit"
    /\ printed' = (ret = "Err")
    /\ UNCHANGED <<scope, released, ret, failed, sceneVars, frameVars, calls>>
    /\ UNCHANGED held

StartUp ==
    \/ \E ok \in BOOLEAN : LoadResources(ok)
    \/ \E ok \in BOOLEAN : SdlInit(ok)
    \/ \E ok \in BOOLEAN : VideoSubsystem(ok)
    \/ \E ok \in BOOLEAN : WindowBuild(ok)
    \/ \E ok \in BOOLEAN : GlCreateContext(ok)
    \/ GlLoad
    \/ \E ok \in BOOLEAN : DebugLinesNew(ok)
    \/ \E ok \in BOOLEAN : CubeNew(ok)
    \/ SceneSetup
    \/ \E ok \in BOOLEAN : EventPump(ok)

\* a step of the frame loop, with events from E and frame times from D
FrameDt(E, D) ==
    \/ BeginFrame
    \/ Quit \in E /\ PollQuit
    \/ \E e \in E : PollToggle(e)
    \/ \E e \in E : PollResized(e)
    \/ \E e \in E : PollCamera(e)
    \/ PollNone
    \/ \E dt \in D : Update(dt)
    \/ GetVpMatrix
    \/ Clear
    \/ CubeRender
    \/ DebugLinesRender
    \/ SwapWindow

Frame(E) == FrameDt(E, 0 .. MaxDt)

Leave ==
    \/ DropLocal
    \/ Return

Next == StartUp \/ Frame(Events) \/ Leave

NextCamera == StartUp \/ Frame(CameraEvents) \/ Leave

\* run() under window events
Spec == Init /\ [][Next]_vars

\* run() under the camera's controls
SpecCamera == Init /\ [][NextCamera]_vars

NextKeys == StartUp \/ FrameDt(KeyEvents, {0}) \/ Leave

\* run() under the six movement keys, in frames that take no time
SpecKeys == Init /\ [][NextKeys]_vars

NextShift == StartUp \/ Frame(ShiftEvents) \/ Leave

\* run() under the two Shift keys
SpecShift == Init /\ [][NextShift]_vars

NextOrbit == StartUp \/ Frame(OrbitEvents) \/ Leave

\* run() under the wheel and right-button motion
SpecOrbit == Init /\ [][NextOrbit]_vars

NextMisc == StartUp \/ Frame(MiscEvents) \/ Leave

\* run() under events no arm acts on
SpecMisc == Init /\ [][NextMisc]_vars

NextLive == StartUp \/ Frame(LiveEvents) \/ Leave

\* run() as the one thread of the process: it takes its next step as long as
\* it has one
SpecLive == Init /\ [][NextLive]_vars /\ WF_vars(NextLive)

\* ------------------------------------------------------------- properties
InLoop ==
    pc \in {"loop", "poll", "update", "vp", "clear", "cube_render", "debug_render",
            "swap"}

Has(seq, x) == \E i \in 1 .. Len(seq) : seq[i] = x

Count(seq, x) == Cardinality({i \in 1 .. Len(seq) : seq[i] = x})

\* calls still holds the calls of start-up, not those of a frame
StartUpLog == calls # <<>> /\ calls[1] = "for_window"

Draws == {"cube.render", "debug_lines.render"}

\* C1: in every state of the frame loop, so at every get_vp_matrix call, the
\* camera's aspect ratio is > 0 and equals the viewport's stored width divided
\* by its stored height, whatever w and h the Resized events carried.
C1_AspectPositiveInSync ==
    InLoop =>
        /\ F32Positive(camera.aspect)
        /\ F32Eq(camera.aspect, F32Div(viewport.w, viewport.h))

\* C2: every Resized(w, h) is followed by camera.update_aspect(w / h) before
\* the next get_vp_matrix: no get_vp_matrix comes between an update_size and
\* its update_aspect, and the matrix is computed from the aspect of the
\* dimensions the viewport stores.
C2_AspectBeforeVpMatrix ==
    /\ \A i \in 1 .. Len(calls) :
           calls[i] = "get_vp_matrix" =>
               \A j \in 1 .. i - 1 :
                   calls[j] = "update_size" =>
                       \E k \in j + 1 .. i - 1 : calls[k] = "update_aspect"
    /\ vp_matrix.set => vp_matrix.aspect = F32Div(viewport.w, viewport.h)

\* a frame that handled a Resized event has computed its matrix
C2_Witness == vp_matrix.set /\ Has(calls, "update_size") /\ viewport.w # InitialWidth

\* C3: set_used is called once at start-up before the first frame, and after
\* every update_size before the next draw; at every cube.render and
\* debug_lines.render the dimensions last applied to the graphics context are
\* the viewport's stored dimensions.
C3_SetUsedBeforeDraw ==
    /\ (StartUpLog /\ pc \in {"event_pump", "loop"}) => Count(calls, "set_used") = 1
    /\ \A i \in 1 .. Len(calls) :
           calls[i] \in Draws =>
               \A j \in 1 .. i - 1 :
                   calls[j] = "update_size" =>
                       \E k \in j + 1 .. i - 1 : calls[k] = "set_used"
    /\ InLoop => glViewport = <<viewport.w, viewport.h>>

\* both draws of a frame that resized the viewport have been issued
C3_Witness ==
    /\ pc = "swap"
    /\ Has(calls, "update_size")
    /\ Has(calls, "debug_lines.render")
    /\ glViewport # <<InitialWidth, InitialHeight>>

\* C10: the viewport's stored width and height are both > 0 in every state
\* after its construction, whatever the Resized events carried.
C10_ViewportPositive == InLoop => (viewport.w > 0 /\ viewport.h > 0)


\* the state mutations of a frame: the camera mutators reached from events,
\* viewport.update_size, camera.update_aspect, camera.update and the marker's
\* update_position
Mutations ==
    {"zoom", "rotate", "update_size", "update_aspect", "update", "update_position"}
        \cup MovementCalls

\* state mutation -> set_used -> clear -> draws -> present
StageOf(c) ==
    CASE c \in Mutations -> 0
      [] c = "set_used" -> 1
      [] c = "clear" -> 2
      [] c \in Draws -> 3
      [] c = "gl_swap_window" -> 4
      [] OTHER -> 0 - 1

\* C4 as stated: in every frame all state mutations come first, then every
\* set_used, then clear, then the draws, then present; no state mutation of the
\* frame follows a set_used of that frame.
C4_MutationsBeforeSetUsed ==
    ~StartUpLog =>
        \A i \in 1 .. Len(calls) : \A j \in i + 1 .. Len(calls) :
            (StageOf(calls[i]) >= 0 /\ StageOf(calls[j]) >= 0)
                => StageOf(calls[i]) <= StageOf(calls[j])

\* event handling -> update -> update_position -> get_vp_matrix -> clear ->
\* cube.render -> debug_lines.render -> present
StepOf(c) ==
    CASE c \in {"zoom", "rotate", "update_size", "set_used", "update_aspect"}
                \cup MovementCalls -> 0
      [] c = "update" -> 1
      [] c = "update_position" -> 2
      [] c = "get_vp_matrix" -> 3
      [] c = "clear" -> 4
      [] c = "cube.render" -> 5
      [] c = "debug_lines.render" -> 6
      [] c = "gl_swap_window" -> 7
      [] OTHER -> 0 - 1

\* C4 (amended): in every frame the calls occur in the fixed order: event
\* handling (the camera mutators of the events and, per Resized event,
\* update_size, then at once set_used, then update_aspect), then camera.update,
\* the marker's update_position, get_vp_matrix, clear, cube.render,
\* debug_lines.render and present; every set_used of the frame follows the
\* update_size it applies and precedes the clear, and no state mutation follows
\* the clear.
C4_FrameOrder ==
    ~StartUpLog =>
        /\ \A i \in 1 .. Len(calls) : StepOf(calls[i]) >= 0
        /\ \A i \in 1 .. Len(calls) : \A j \in i + 1 .. Len(calls) :
               StepOf(calls[i]) <= StepOf(calls[j])
        /\ \A i \in 1 .. Len(calls) :
               calls[i] \in {"update", "get_vp_matrix", "clear", "cube.render",
                             "debug_lines.render", "gl_swap_window"}
                   => Count(calls, calls[i]) = 1
        /\ \A i \in 1 .. Len(calls) :
               calls[i] = "set_used" => (i > 1 /\ calls[i - 1] = "update_size")
        /\ \A i \in 1 .. Len(calls) :
               calls[i] = "update_size" =>
                   /\ i + 2 <= Len(calls)
                   /\ calls[i + 1] = "set_used"
                   /\ calls[i + 2] = "update_aspect"

\* a whole frame, presented, that resized the viewport and moved the marker
C4_Witness ==
    /\ pc = "loop"
    /\ Has(calls, "gl_swap_window")
    /\ Has(calls, "update_size")
    /\ Has(calls, "update_position")

\* C5: a mouse-motion event calls camera.rotate((xrel, -yrel)) if and only if
\* its mouse state has the right button held; without it the whole camera
\* state is left as it was.
C5_RotateOnlyWhileRightHeld ==
    [][(pc = "poll" /\ polled' = polled + 1 /\ event'.type = "MouseMotion") =>
          /\ event'.right =>
                 /\ calls' = Append(calls, "rotate")
                 /\ camera' = Rotate(camera, event'.a, 0 - event'.b)
          /\ ~event'.right => (calls' = calls /\ camera' = camera)]_vars

\* a motion without the right button, on a camera that was rotated before
C5_Witness ==
    /\ pc = "poll"
    /\ event.type = "MouseMotion"
    /\ ~event.right
    /\ camera.yaw # 0
    /\ Has(calls, "rotate")

\* C6: at every debug_lines.render the marker's position is camera.target: the
\* marker is created at the initial target, update_position(camera.target) is called in a frame exactly when
\* camera.update moved the target, and nothing changes the target between the
\* update and the render.
C6_MarkerFollowsTarget ==
    [][/\ pc = "scene" => marker' = camera'.target
       /\ (pc = "update" /\ pc' = "vp") =>
              /\ (Has(calls', "update_position") <=> (camera'.target # camera.target))
              /\ marker' = camera'.target
       /\ pc \in {"vp", "clear", "cube_render", "debug_render"} =>
              (camera'.target = camera.target /\ marker' = marker)
       /\ pc = "debug_render" => marker' = camera'.target]_vars

\* debug_lines.render has drawn a marker that camera.update moved this frame
C6_Witness ==
    /\ pc = "swap"
    /\ Has(calls, "update_position")
    /\ marker # Origin

\* C7: once Quit is polled no further event is handled and no camera.update,
\* get_vp_matrix, clear, draw or present happens; run returns Ok(()).
C7_QuitEndsTheLoop ==
    [][/\ (event' = Quit /\ event # Quit) => (ret' = "Ok" /\ pc' = "unwind")
       /\ event = Quit =>
              /\ UNCHANGED <<sceneVars, frameVars, calls>>
              /\ ret' = "Ok"
              /\ pc' \in {"unwind", "exit"}
       /\ (pc' = "exit" /\ event = Quit) => (ret' = "Ok" /\ ~printed')]_vars

\* run has returned after a Quit that was the first event of its poll batch
C7_Witness == pc = "exit" /\ event = Quit /\ polled = 1 /\ ret = "Ok"

\* the owning locals of run(), in declaration order, each with the step that
\* binds it
Declared ==
    <<"res", "sdl", "video_subsystem", "window", "gl_context", "gl",
      "debug_lines", "cube", "camera_target_marker", "event_pump">>

BoundAt ==
    <<"load_res", "sdl_init", "video", "window", "gl_context", "gl_load",
      "debug_lines", "cube", "scene", "event_pump">>

\* the resources acquired when the step `step` fails ("none": no step failed)
AcquiredBefore(step) ==
    IF step = "none" THEN Resources
    ELSE LET n == CHOOSE i \in 1 .. Len(BoundAt) : BoundAt[i] = step
         IN  {Declared[i] : i \in 1 .. n - 1}

\* C8: on every exit path of run every resource acquired so far is released
\* exactly once, and none is used after its release (releases begin only when
\* run is leaving, and every resource is alive throughout the loop).
C8_ReleasedExactlyOnce ==
    /\ \A r \in Resources : released[r] <= 1
    /\ pc = "exit" =>
           \A r \in Resources :
               released[r] = IF r \in AcquiredBefore(failed) THEN 1 ELSE 0
    /\ (\E r \in Resources : released[r] > 0) => pc \in {"unwind", "exit"}
    /\ InLoop => \A r \in Resources : Has(scope, r)

\* run has left on Cube::new failing, with the DebugLines built before it
C8_Witness ==
    /\ pc = "exit"
    /\ failed = "cube"
    /\ released["debug_lines"] = 1
    /\ released["window"] = 1

\* C9: every start-up failure is returned by run as an Err that main prints,
\* and no frame is entered after it.
C9_StartUpFailurePrinted ==
    /\ (pc = "exit" /\ failed # "none") => (ret = "Err" /\ printed)
    /\ failed # "none" => ~InLoop


\* C11: the frame loop ends if and only if a Quit event is delivered: it is
\* left by nothing but a Quit, without a Quit the frames go on forever whatever
\* other events arrive, and once a Quit is delivered run returns.
C11_LoopEndsOnlyOnQuit ==
    /\ [][(InLoop /\ ~InLoop') => (event' = Quit /\ ret' = "Ok")]_vars
    /\ ([]<>(pc = "swap") \/ <>(event = Quit) \/ <>(failed # "none"))
    /\ ((event = Quit) ~> (pc = "exit" /\ ret = "Ok"))

\* run has returned after a Quit that came second in its poll batch
C11_Witness == pc = "exit" /\ event = Quit /\ polled = 2 /\ ret = "Ok"


\* a poll step that handled an event of type t
Handled(t) == pc = "poll" /\ polled' = polled + 1 /\ event'.type = t

\* C12: every mouse-wheel event is forwarded as camera.zoom(y), and after any
\* sequence of them, interleaved with updates, the camera distance is within
\* [min_distance, max_distance]; zooming in at the minimum leaves the distance
\* at the minimum.
C12_DistanceWithinClamp ==
    [][/\ InLoop' =>
              (MinDistance <= camera'.distance /\ camera'.distance <= MaxDistance)
       /\ Handled("MouseWheel") =>
              /\ calls' = Append(calls, "zoom")
              /\ camera' = Zoom(camera, event'.b)
              /\ camera'.distance =
                     Clamp(camera.distance - event'.b, MinDistance, MaxDistance)
              /\ (camera.distance = MinDistance /\ event'.b > 0) =>
                     camera'.distance = MinDistance
       /\ (pc = "update" /\ pc' = "vp") => camera'.distance = camera.distance]_vars

\* a second zoom-in of one batch, further than the minimum allows, after an
\* update of an earlier frame
C12_Witness ==
    /\ pc = "poll"
    /\ event.type = "MouseWheel"
    /\ event.b > MaxDistance - MinDistance
    /\ Count(calls, "zoom") = 2
    /\ camera.distance = MinDistance
    /\ side_cam

\* C13: every right-button mouse motion is forwarded as
\* camera.rotate((xrel, -yrel)), and after any sequence of them, of any
\* magnitude, the camera pitch is strictly inside (epsilon, pi - epsilon).
C13_PitchStrictlyInside ==
    [][/\ InLoop' => (Epsilon < camera'.pitch /\ camera'.pitch < Pi - Epsilon)
       /\ (Handled("MouseMotion") /\ event'.right) =>
              /\ calls' = Append(calls, "rotate")
              /\ camera' = Rotate(camera, event'.a, 0 - event'.b)
              /\ camera'.pitch =
                     Clamp(camera.pitch - event'.b, Epsilon + 1, Pi - Epsilon - 1)]_vars

\* a motion wider than the whole pitch range has pushed the pitch to its
\* upper end, and an earlier one in the batch rotated too
C13_Witness ==
    /\ pc = "poll"
    /\ event.type = "MouseMotion"
    /\ event.right
    /\ 0 - event.b > Pi - 2 * Epsilon - 2
    /\ Count(calls, "rotate") = 2
    /\ camera.pitch = Pi - Epsilon - 1


\* C14: a frame in which all movement flags are false is a no-op for the
\* camera: camera.update leaves target, yaw, pitch and distance (so the
\* position derived from them) as they were and returns false, the marker is
\* not repositioned, and the rest of the frame changes nothing either, so any
\* number of such frames ends in the same state.
C14_IdleFrameIsNoOp ==
    [][/\ (pc = "update" /\ pc' = "vp" /\ camera.movement = NoMovement) =>
              /\ camera' = camera
              /\ marker' = marker
              /\ calls' = Append(calls, "update")
       /\ (pc = "poll" /\ pc' = "update") => UNCHANGED sceneVars
       /\ pc \in {"loop", "vp", "clear", "cube_render", "debug_render", "swap"} =>
              UNCHANGED sceneVars]_vars

\* an idle frame, with no event and no flag set, after the target was moved
C14_Witness ==
    /\ pc = "vp"
    /\ polled = 0
    /\ camera.movement = NoMovement
    /\ camera.target # Origin
    /\ calls = <<"update">>


\* a poll step that handled a KeyDown or KeyUp of a key mapped to a flag
HandledMappedKey ==
    /\ pc = "poll"
    /\ polled' = polled + 1
    /\ event'.type \in {"KeyDown", "KeyUp"}
    /\ FlagOf(event'.scancode) # "none"

\* C15: after any sequence of key-down and key-up events each of the flags
\* left, forward, backward, right, up, down is true exactly when the most
\* recent event of its own key (A, W, S, D, Space, LCtrl) was a key-down; a key
\* event changes at most the flag mapped to its key and no other camera state.
C15_FlagsFollowTheirKeys ==
    [][/\ \A k \in MovementKeys : camera'.movement[FlagOf(k)] = (k \in held')
       /\ HandledMappedKey =>
              /\ camera'.movement[FlagOf(event'.scancode)] = (event'.type = "KeyDown")
              /\ \A f \in Flags \ {FlagOf(event'.scancode)} :
                     camera'.movement[f] = camera.movement[f]
              /\ camera'.yaw = camera.yaw
              /\ camera'.pitch = camera.pitch
              /\ camera'.distance = camera.distance
              /\ camera'.target = camera.target
              /\ camera'.aspect = camera.aspect]_vars

\* A released right after it was pressed, while D and W stay down
C15_Witness ==
    /\ pc = "poll"
    /\ event = KeyUp("A")
    /\ calls = <<MovementCall("left", TRUE), MovementCall("left", FALSE)>>
    /\ held = {"D", "W"}
    /\ camera.movement.right
    /\ camera.movement.forward
    /\ ~camera.movement.left

\* C16: after any sequence of key-down and key-up events of LShift and RShift
\* the flag faster is true exactly when at least one of the two Shift keys is
\* held.
C16_FasterWhileShiftHeld ==
    camera.movement.faster = (held \cap ShiftKeys # {})


\* the stages of a frame that come after get_vp_matrix
AfterMatrix == {"clear", "cube_render", "debug_render", "swap"}

\* C17: the view-projection matrix is obtained once per frame, after all event
\* handling and the camera update, and the one value is what both cube.render
\* and debug_lines.render get; nothing changes the camera between
\* get_vp_matrix and the two render calls.
C17_OneMatrixPerFrame ==
    [][/\ pc' \in {"poll", "update", "vp"} => ~vp_matrix'.set
       /\ pc' \in AfterMatrix =>
              /\ vp_matrix' = VpMatrix(camera')
              /\ Count(calls', "get_vp_matrix") = 1
              /\ \A i, j \in 1 .. Len(calls') :
                     (calls'[i] = "get_vp_matrix" /\ j > i) =>
                         calls'[j] \in Draws \cup {"clear"}
              /\ \E i, j \in 1 .. Len(calls') :
                     i < j /\ calls'[i] = "update" /\ calls'[j] = "get_vp_matrix"
       /\ pc \in AfterMatrix => (vp_matrix' = vp_matrix /\ camera' = camera)]_vars

\* both renders of a frame are done, with a matrix of a camera that was
\* turned, zoomed and moved
C17_Witness ==
    /\ pc = "swap"
    /\ Has(calls, "cube.render")
    /\ Has(calls, "debug_lines.render")
    /\ vp_matrix.yaw # 0
    /\ vp_matrix.distance # InitialDistance
    /\ vp_matrix.target # Origin

\* the movement flags that ask for a translation
Directions == Flags \ {"faster"}

\* the component of the target a direction flag moves
Axis(f) == IF f \in {"right", "left"} THEN 1 ELSE IF f \in {"up", "down"} THEN 2 ELSE 3

\* and the way it moves it
Sign(f) == IF f \in {"right", "up", "forward"} THEN 1 ELSE 0 - 1

\* the flag f was set and later cleared in the batch logged in log, and not
\* written after that
PressedThenReleased(log, f) ==
    \E i, j \in 1 .. Len(log) :
        /\ i < j
        /\ log[i] = MovementCall(f, TRUE)
        /\ log[j] = MovementCall(f, FALSE)
        /\ \A k \in j + 1 .. Len(log) :
               log[k] \notin {MovementCall(f, TRUE), MovementCall(f, FALSE)}

\* C18: camera.update integrates the flags as they stand once the whole event
\* batch is drained: the KeyUp of a key whose KeyDown came earlier in the batch
\* leaves the flag false, it is still false when update runs, and update then
\* moves the target nowhere along that flag.
C18_UpdateSeesFlagsAfterBatch ==
    [][/\ (HandledMappedKey /\ event'.type = "KeyUp"
              /\ Has(calls, MovementCall(FlagOf(event'.scancode), TRUE))) =>
              /\ ~camera'.movement[FlagOf(event'.scancode)]
              /\ calls' = Append(calls, MovementCall(FlagOf(event'.scancode), FALSE))
              /\ pc' = "poll"
       /\ pc' = "update" =>
              \A f \in Flags : PressedThenReleased(calls', f) => ~camera'.movement[f]
       /\ (pc = "update" /\ pc' = "vp") =>
              /\ camera'.movement = camera.movement
              /\ \A f \in Directions :
                     ~camera.movement[f] =>
                         Sign(f) * (camera'.target[Axis(f)] - camera.target[Axis(f)]) <= 0
              /\ (\A f \in Directions : PressedThenReleased(calls, f) \/ ~camera.movement[f]) =>
                     camera'.target = camera.target]_vars

\* update has run after a batch of KeyDown W, KeyUp W, with Shift still down,
\* and the target is where it was
C18_Witness ==
    /\ pc = "vp"
    /\ calls = <<MovementCall("forward", TRUE), MovementCall("forward", FALSE), "update">>
    /\ camera.movement.faster
    /\ ~camera.movement.forward
    /\ camera.target = Origin
    /\ marker = Origin

\* e is an event none of the arms of run() and handle_camera_event acts on
Irrelevant(e) ==
    /\ e.type \notin {"NoEvent", "Quit", "Resized", "MouseWheel"}
    /\ ~(e.type \in {"KeyDown", "KeyUp"} /\ FlagOf(e.scancode) # "none")
    /\ ~(e.type = "KeyDown" /\ e.scancode = "C")
    /\ ~(e.type = "MouseMotion" /\ e.right)

\* C19: an event that is none of Quit, Resized, MouseWheel, KeyDown or KeyUp of
\* a mapped key, right-button MouseMotion, KeyDown C changes nothing of the
\* camera, the viewport, side_cam and the loop; KeyDown C flips side_cam and
\* nothing else, and is not forwarded to handle_camera_event.
C19_OtherEventsChangeNothing ==
    [][(pc = "poll" /\ polled' = polled + 1) =>
           /\ Irrelevant(event') =>
                  /\ UNCHANGED <<sceneVars, vp_matrix, calls, scope, exitVars>>
                  /\ pc' = "poll"
           /\ event' = KeyDown("C") =>
                  /\ side_cam' = ~side_cam
                  /\ UNCHANGED <<viewport, glViewport, camera, marker, vp_matrix,
                                 calls, scope, exitVars>>
                  /\ pc' = "poll"]_vars

\* C was pressed and released in one batch: side_cam flipped once
C19_Witness ==
    /\ pc = "poll"
    /\ polled = 2
    /\ event = KeyUp("C")
    /\ side_cam
    /\ calls = <<>>
    /\ camera.yaw # 0

\* the locals of run() that own objects of the graphics context
GpuObjects == {"debug_lines", "cube", "camera_target_marker"}

\* C20: the marker, the Cube and the DebugLines are released while the GL
\* context and the window still exist: the locals of run() are released in
\* the reverse of the order they were built in.
C20_GpuObjectsReleasedFirst ==
    [][/\ \A g \in GpuObjects :
              released'[g] > released[g] =>
                  /\ Has(scope', "gl_context") /\ released'["gl_context"] = 0
                  /\ Has(scope', "window") /\ released'["window"] = 0
       /\ \A i, j \in 1 .. Len(Declared) :
              (i < j /\ released'[Declared[i]] > 0) => ~Has(scope', Declared[j])]_vars

\* run is leaving after a Quit: the three objects are released, the context
\* and the window not yet
C20_Witness ==
    /\ pc = "unwind"
    /\ ret = "Ok"
    /\ \A g \in GpuObjects : released[g] = 1
    /\ Has(scope, "gl_context")
    /\ Has(scope, "window")
    /\ released["gl"] = 0

====
